---------------------------- MODULE Spec2Model ----------------------------
(***************************************************************************)
(* Model of the data-access layer of src/index.tsx: the ApiService         *)
(* (session store, request facade, fixture handler), the AuthProvider      *)
(* context and the fetches of MembersPage.                                 *)
(*                                                                         *)
(* JavaScript strings that the code parses or tests by prefix (tenant ids, *)
(* endpoints) are sequences of one-character strings; strings the code     *)
(* only stores and compares are TLA+ strings.  The event loop is           *)
(* single-threaded: one action is one task with all the microtasks and     *)
(* React flushes it triggers.                                              *)
(***************************************************************************)
EXTENDS Integers, Sequences, FiniteSets, TLC

VARIABLES
    token,          \* ApiService.token: string | null
    tenantId,       \* ApiService.tenantId: a JS value (number, or the form's string)
    useMock,        \* ApiService.useMock
    localStorage,   \* window.localStorage: a function from the present keys
    MockData,       \* the fixture collections
    user,           \* AuthProvider's user state
    isMock,         \* AuthProvider's isMock state
    pending,        \* requests in flight, in the order they were issued
    lastOp,         \* observation: the operation the last step performed
    lastFetch,      \* observation: the fetch() call this step made
    lastResp,       \* observation: how the request this step completed ended
                    \* (overtook: a list fetch that ended while a create
                    \* issued before it was still in flight)
    sessionToken,   \* observation: access_token of the login that set user
    lastSetMock,    \* observation: argument of the last setMock call
    page,           \* MembersPage's members and loading state
    latest          \* observation: how the fetchMembers issued last ended

vars == <<token, tenantId, useMock, localStorage, MockData, user, isMock,
          pending, lastOp, lastFetch, lastResp, sessionToken, lastSetMock,
          page, latest>>

pageVars == <<page, latest>>

-----------------------------------------------------------------------------
(* Bounds *)

MaxPending == 2     \* requests in flight at once under Spec and SpecBig
MaxPendingData == 1 \* requests in flight at once under SpecData
MaxCreates == 1     \* members created per page load under Spec
MaxCreatesBig == 16 \* members created per page load under SpecBig
MaxPendingPage == 2 \* requests in flight at once under SpecPage

-----------------------------------------------------------------------------
(* JavaScript values *)

null == "null"      \* the null reference; no token or user is this string

Num(n) == [type |-> "number", nan |-> FALSE, n |-> n, s |-> <<>>]
NaN == [type |-> "number", nan |-> TRUE, n |-> 0, s |-> <<>>]
Str(s) == [type |-> "string", nan |-> FALSE, n |-> 0, s |-> s]

Digits == <<"0", "1", "2", "3", "4", "5", "6", "7", "8", "9">>

IsDigit(c) == \E i \in 1..10 : Digits[i] = c

DigitVal(c) == (CHOOSE i \in 1..10 : Digits[i] = c) - 1

RECURSIVE NatToString(_)
NatToString(n) ==
    IF n < 10 THEN <<Digits[n + 1]>>
    ELSE NatToString(n \div 10) \o <<Digits[(n % 10) + 1]>>

\* Number.prototype.toString / String.prototype.toString
toString(v) ==
    IF v.type = "string" THEN v.s
    ELSE IF v.nan THEN <<"N", "a", "N">>
    ELSE IF v.n < 0 THEN <<"-">> \o NatToString(0 - v.n)
    ELSE NatToString(v.n)

RECURSIVE LeadingDigits(_)
LeadingDigits(s) ==
    IF s = <<>> \/ ~IsDigit(Head(s)) THEN <<>>
    ELSE <<Head(s)>> \o LeadingDigits(Tail(s))

RECURSIVE DigitsValue(_)
DigitsValue(d) ==
    IF d = <<>> THEN 0
    ELSE 10 * DigitsValue(SubSeq(d, 1, Len(d) - 1)) + DigitVal(d[Len(d)])

RECURSIVE TrimLeft(_)
TrimLeft(s) ==
    IF s # <<>> /\ Head(s) = " " THEN TrimLeft(Tail(s)) ELSE s

\* parseInt(string) with no radix: leading blanks, a sign, then the longest
\* run of decimal digits; NaN when there is none.
parseInt(s) ==
    LET t == TrimLeft(s)
        neg == t # <<>> /\ Head(t) = "-"
        u == IF t # <<>> /\ Head(t) \in {"-", "+"} THEN Tail(t) ELSE t
        d == LeadingDigits(u)
    IN  IF d = <<>> THEN NaN
        ELSE Num(IF neg THEN 0 - DigitsValue(d) ELSE DigitsValue(d))

\* ToBoolean on the values the code tests: the token (string | null) ...
TruthyToken(t) == t # null /\ t # ""

\* ... and a tenant id (number or string)
Truthy(v) ==
    IF v.type = "string" THEN v.s # <<>>
    ELSE ~v.nan /\ v.n # 0

\* a || b
OrElse(a, b) == IF Truthy(a) THEN a ELSE b

-----------------------------------------------------------------------------
(* localStorage *)

hasItem(k) == k \in DOMAIN localStorage

setItem(ls, k, v) == [x \in (DOMAIN ls) \cup {k} |-> IF x = k THEN v ELSE ls[x]]

removeItem(ls, k) == [x \in (DOMAIN ls) \ {k} |-> ls[x]]

EmptyStorage == [x \in {} |-> ""]

-----------------------------------------------------------------------------
(* MockData: the fixtures *)

MockMembers == <<
    [id |-> 101, username |-> "admin", fullName |-> "System Administrator",
     nickname |-> "SysAdmin", email |-> "admin@sys.com", status |-> "active",
     isVirtual |-> FALSE, createdAt |-> "2023-01-01T10:00:00Z",
     updatedAt |-> "2023-01-01T10:00:00Z"],
    [id |-> 102, username |-> "sarah.connor", fullName |-> "Sarah Connor",
     nickname |-> "Sarah", email |-> "sarah@resistance.com", status |-> "active",
     isVirtual |-> FALSE, createdAt |-> "2023-02-15T14:30:00Z",
     updatedAt |-> "2023-02-15T14:30:00Z"],
    [id |-> 103, username |-> "t800_bot", fullName |-> "Model 101",
     nickname |-> "Arnold", email |-> "t800@skynet.com", status |-> "active",
     isVirtual |-> TRUE, agentType |-> "bot", createdAt |-> "2023-03-10T09:00:00Z",
     updatedAt |-> "2023-03-10T09:00:00Z"],
    [id |-> 104, username |-> "john.doe", fullName |-> "John Doe",
     nickname |-> "JD", email |-> "john@corp.com", status |-> "inactive",
     isVirtual |-> FALSE, createdAt |-> "2023-05-20T11:15:00Z",
     updatedAt |-> "2023-06-01T10:00:00Z"],
    [id |-> 105, username |-> "gpt_helper", fullName |-> "Support Assistant",
     nickname |-> "GPT-4", email |-> "ai@support.com", status |-> "active",
     isVirtual |-> TRUE, agentType |-> "llm", createdAt |-> "2023-07-01T08:00:00Z",
     updatedAt |-> "2023-07-01T08:00:00Z"] >>

MockRoles == <<
    [id |-> 1, org_id |-> 0, code |-> "ADMIN", name |-> "Administrator",
     description |-> "Full system access", is_position |-> FALSE, active |-> TRUE],
    [id |-> 2, org_id |-> 10, code |-> "MGR", name |-> "Manager",
     description |-> "Department manager", is_position |-> TRUE, active |-> TRUE],
    [id |-> 3, org_id |-> 10, code |-> "DEV", name |-> "Developer",
     description |-> "Software engineer", is_position |-> TRUE, active |-> TRUE] >>

MockOrgs == <<
    [id |-> 10, tenantId |-> 1, name |-> "Headquarters", type |-> "company",
     description |-> "Main Office"],
    [id |-> 11, tenantId |-> 1, name |-> "R&D Department", type |-> "dept",
     description |-> "Research and Development"],
    [id |-> 12, tenantId |-> 1, name |-> "Sales Team A", type |-> "team",
     description |-> "North America Sales"] >>

InitMockData == [members |-> MockMembers, roles |-> MockRoles, orgs |-> MockOrgs]

-----------------------------------------------------------------------------
(* Inputs *)

\* formData.tenantId of the login form: the value of an <input type="number">,
\* a string: an integer in plain digits (zero, which as a non-empty string is
\* truthy like any other), the emptied field, and an integer in exponent
\* notation.
FormTenantIds == {<<"0">>, <<>>, <<"1", "e", "2">>}

Credentials == {[username |-> "admin", password |-> "secret", tenantId |-> t] :
                    t \in FormTenantIds}

\* access tokens the live backend issues
LiveTokens == {"jwt-A"}

\* bodies handed to createMember: the page's form object, and a body that
\* carries a server-assigned field
MemberBodies == {
    [username |-> "jdoe", fullName |-> "", email |-> "j@x.com",
     isVirtual |-> FALSE, agentType |-> "llm", status |-> "active"],
    [id |-> 7, username |-> "bot", email |-> "b@x.com", isVirtual |-> TRUE,
     status |-> "inactive"] }

\* values of Math.floor(Math.random() * 1000) the model draws: the id of a
\* seeded member and the top of the range
RandomIds == {101, 999}

\* values of new Date().toISOString(), in increasing order
Clock == <<"2024-01-01T00:00:00.000Z", "2024-01-01T00:00:00.001Z">>

\* the readings of the two successive new Date() calls of one create: the
\* same millisecond, or the next one
Times == {<<1, 1>>, <<1, 2>>}

\* filter parameters MembersPage passes to getMembers
MemberParams == {[status |-> "undefined", keyword |-> "undefined"],
                 [status |-> "active", keyword |-> "jd"]}

-----------------------------------------------------------------------------
(* ApiService: the session store *)

\* setToken(token): the pair <<token', localStorage'>>
setToken(ls, t) == <<t, setItem(ls, "auth_token", t)>>

\* setTenantId(id): the pair <<tenantId', localStorage'>>
setTenantId(ls, id) == <<id, setItem(ls, "tenant_id", toString(id))>>

\* a logout that clears the whole storage
apiLogoutClearsStorage(ls) == <<null, EmptyStorage>>

\* ApiService.logout(): the pair <<token', localStorage'>>
apiLogout(ls) == <<null, removeItem(ls, "auth_token")>>

\* isAuthenticated without the mock clause
isAuthenticatedTokenOnly == TruthyToken(token)

isAuthenticated == TruthyToken(token) \/ useMock

\* the field initialisers of a new ApiService, reading durable storage
ConstructToken(ls) == IF "auth_token" \in DOMAIN ls THEN ls["auth_token"] ELSE null

ConstructTenantId(ls) ==
    LET item == IF "tenant_id" \in DOMAIN ls THEN ls["tenant_id"] ELSE <<>>
    IN  parseInt(IF item # <<>> THEN item ELSE <<"1">>)

-----------------------------------------------------------------------------
(* ApiService: request and the fixture handler *)

EP_login == <<"/", "a", "u", "t", "h", "/", "l", "o", "g", "i", "n">>
EP_members == <<"/", "m", "e", "m", "b", "e", "r", "s">>
EP_roles == <<"/", "r", "o", "l", "e", "s">>
EP_orgs == <<"/", "o", "r", "g", "s">>

\* String.prototype.startsWith
startsWith(s, prefix) ==
    Len(s) >= Len(prefix) /\ SubSeq(s, 1, Len(prefix)) = prefix

\* new URLSearchParams(params).toString(): every key of the object, a value
\* of undefined written as the text "undefined".  One element per key=value.
URLSearchParams(params) ==
    <<"status=" \o params.status, "&", "keyword=" \o params.keyword>>

\* JSON.stringify of a flat object whose fields are strings, booleans and
\* integers (formData, newMember): the JSON text, kept as its content
JSONstringify(obj) == [json |-> [f \in DOMAIN obj |-> obj[f]]]

JSONparse(text) == text.json

\* options.body of a request that has none
NoBody == [json |-> [f \in {} |-> ""]]

NoCreds == [username |-> "", password |-> "", tenantId |-> <<>>]

\* no fetch() call
NoFetch == [called |-> FALSE, endpoint |-> <<>>, method |-> "", body |-> NoBody,
            headers |-> [ContentType |-> "", Authorization |-> "",
                         XTenantID |-> <<>>]]

\* an envelope whose total_pages is computed from total and page_size
EnvelopePaged(data, coll) ==
    [data |-> [ref |-> coll, items |-> <<>>],
     meta |-> [page |-> 1, page_size |-> 20, total |-> Len(data[coll]),
               total_pages |-> (Len(data[coll]) + 19) \div 20]]

\* the object mockHandler returns for a list endpoint; data is the fixture
\* array itself (a reference), not a copy
Envelope(data, coll) ==
    [data |-> [ref |-> coll, items |-> <<>>],
     meta |-> [page |-> 1, page_size |-> 20, total |-> Len(data[coll]),
               total_pages |-> 1]]

\* the array a response's data field denotes in the current state
DataOf(d) == IF d.ref = "none" THEN d.items ELSE MockData[d.ref]

\* a new member without its updatedAt stamp
NewMemberNoUpdatedAt(body, id, createdAt, updatedAt) ==
    [f \in (DOMAIN body) \cup {"id", "createdAt"} |->
        IF f = "id" THEN id
        ELSE IF f = "createdAt" THEN createdAt
        ELSE body[f]]

\* { ...body, id, createdAt, updatedAt }
NewMember(body, id, createdAt, updatedAt) ==
    [f \in (DOMAIN body) \cup {"id", "createdAt", "updatedAt"} |->
        IF f = "id" THEN id
        ELSE IF f = "createdAt" THEN createdAt
        ELSE IF f = "updatedAt" THEN updatedAt
        ELSE body[f]]

EmptyObject == [f \in {} |-> ""]

IsActive(m) == m.status = "active"

\* a fixture handler that applies the status filter of GET /members
mockHandlerFiltering(endpoint, method, body, data, rnd, t1, t2) ==
    IF endpoint = EP_login /\ method = "POST"
    THEN [raised |-> FALSE, data |-> data,
          result |-> [access_token |-> "mock-jwt-token", username |-> "admin",
                      full_name |-> "Mock Admin"]]
    ELSE IF startsWith(endpoint, EP_members) /\ method = "POST"
    THEN IF body = NoBody
         THEN [raised |-> TRUE, data |-> data, result |-> EmptyObject]
         ELSE LET newMember == NewMember(JSONparse(body), rnd, t1, t2)
              IN  [raised |-> FALSE,
                   data |-> [data EXCEPT !.members = Append(@, newMember)],
                   result |-> newMember]
    ELSE IF startsWith(endpoint, EP_members) /\ method = "GET"
    THEN IF Len(endpoint) >= 10 /\ endpoint[10] = "status=active"
         THEN LET items == SelectSeq(data.members, IsActive)
              IN  [raised |-> FALSE, data |-> data,
                   result |-> [data |-> [ref |-> "none", items |-> items],
                               meta |-> [page |-> 1, page_size |-> 20,
                                         total |-> Len(items), total_pages |-> 1]]]
         ELSE [raised |-> FALSE, data |-> data, result |-> Envelope(data, "members")]
    ELSE IF startsWith(endpoint, EP_roles)
    THEN [raised |-> FALSE, data |-> data, result |-> Envelope(data, "roles")]
    ELSE IF startsWith(endpoint, EP_orgs)
    THEN [raised |-> FALSE, data |-> data, result |-> Envelope(data, "orgs")]
    ELSE [raised |-> FALSE, data |-> data, result |-> EmptyObject]

\* mockHandler(endpoint, options) on the fixtures `data`; rnd, t1 and t2 are
\* what Math.random and the two new Date() calls give.  The result and the
\* fixtures afterwards.
mockHandler(endpoint, method, body, data, rnd, t1, t2) ==
    IF endpoint = EP_login /\ method = "POST"
    THEN [raised |-> FALSE, data |-> data,
          result |-> [access_token |-> "mock-jwt-token", username |-> "admin",
                      full_name |-> "Mock Admin"]]
    ELSE IF startsWith(endpoint, EP_members) /\ method = "POST"
    THEN IF body = NoBody
         THEN [raised |-> TRUE, data |-> data, result |-> EmptyObject]
         ELSE LET newMember == NewMember(JSONparse(body), rnd, t1, t2)
              IN  [raised |-> FALSE,
                   data |-> [data EXCEPT !.members = Append(@, newMember)],
                   result |-> newMember]
    ELSE IF startsWith(endpoint, EP_members) /\ method = "GET"
    THEN [raised |-> FALSE, data |-> data, result |-> Envelope(data, "members")]
    ELSE IF startsWith(endpoint, EP_roles)
    THEN [raised |-> FALSE, data |-> data, result |-> Envelope(data, "roles")]
    ELSE IF startsWith(endpoint, EP_orgs)
    THEN [raised |-> FALSE, data |-> data, result |-> Envelope(data, "orgs")]
    ELSE [raised |-> FALSE, data |-> data, result |-> EmptyObject]

\* request(endpoint, options) up to its first await: the request in flight.
\* In mock mode a 600 ms timer is armed; in live mode fetch has been called.
request(op, endpoint, method, body, creds) ==
    IF useMock
    THEN [op |-> op, endpoint |-> endpoint, method |-> method, body |-> body,
          creds |-> creds, mock |-> TRUE, fetches |-> 0]
    ELSE [op |-> op, endpoint |-> endpoint, method |-> method, body |-> body,
          creds |-> creds, mock |-> FALSE, fetches |-> 1]

\* a fetch() whose tenant header is always the default tenant
FetchDefaultTenant(req) ==
    IF req.mock
    THEN NoFetch
    ELSE [called |-> TRUE, endpoint |-> req.endpoint, method |-> req.method,
          body |-> req.body,
          headers |-> [ContentType |-> "application/json",
                       Authorization |-> "Bearer " \o token,
                       XTenantID |-> <<"1">>]]

\* the fetch() call request() makes for req, with the headers of lines 111-116
Fetch(req) ==
    IF req.mock
    THEN NoFetch
    ELSE [called |-> TRUE, endpoint |-> req.endpoint, method |-> req.method,
          body |-> req.body,
          headers |-> [ContentType |-> "application/json",
                       Authorization |-> "Bearer " \o token,
                       XTenantID |-> toString(tenantId)]]

\* the branch chosen by the mode flag as it is when the request completes
BackendAtCompletion(req) == IF useMock THEN "fixture" ELSE "network"

\* which branch of request() a request in flight is suspended in
Backend(req) == IF req.mock THEN "fixture" ELSE "network"

\* the named operations
apiLogin(creds) == request("login", EP_login, "POST", JSONstringify(creds), creds)

getMembers(params) ==
    request("getMembers", EP_members \o <<"?">> \o URLSearchParams(params),
            "GET", NoBody, NoCreds)

createMember(data) == request("createMember", EP_members, "POST",
                              JSONstringify(data), NoCreds)

getRoles == request("getRoles", EP_roles, "GET", NoBody, NoCreds)

getOrgs == request("getOrgs", EP_orgs, "GET", NoBody, NoCreds)

-----------------------------------------------------------------------------
(* State after construction *)

nullUser == [present |-> FALSE, username |-> "", fullName |-> ""]

\* useState([]) and useState(true) of MembersPage
InitPage == [members |-> [ref |-> "none", items |-> <<>>], loading |-> TRUE]

\* no fetchMembers issued yet
NoLatest == [state |-> "none", data |-> [ref |-> "none", items |-> <<>>]]

NoResp == [op |-> "none", overtook |-> FALSE, endpoint |-> <<>>, body |-> NoBody,
           mock |-> FALSE, via |-> "none",
           fetches |-> 0, outcome |-> "none", status |-> 0, isNull |-> FALSE,
           value |-> EmptyObject]

Init ==
    /\ localStorage = EmptyStorage
    /\ token = ConstructToken(EmptyStorage)
    /\ tenantId = ConstructTenantId(EmptyStorage)
    /\ useMock = TRUE
    /\ MockData = InitMockData
    /\ user = nullUser
    /\ isMock = TRUE
    /\ pending = <<>>
    /\ lastOp = "init"
    /\ lastFetch = NoFetch
    /\ lastResp = NoResp
    /\ sessionToken = null
    /\ lastSetMock = TRUE
    /\ page = InitPage
    /\ latest = NoLatest

-----------------------------------------------------------------------------
(* AuthProvider *)

\* an effect that writes the flag of the render before
MockEffectStale(rendered) == isMock

\* the effect of lines 171-173, run after a render in which isMock changed:
\* the value it writes to api.useMock
MockEffect(rendered) == rendered

\* a setMock that also ends the session
SetMockEndsSession(val) ==
    /\ isMock' = val
    /\ useMock' = val
    /\ lastSetMock' = val
    /\ lastOp' = "setMock"
    /\ lastFetch' = NoFetch
    /\ lastResp' = NoResp
    /\ token' = null
    /\ localStorage' = removeItem(localStorage, "auth_token")
    /\ user' = nullUser
    /\ sessionToken' = null
    /\ UNCHANGED <<tenantId, MockData, pending, pageVars>>

\* setMock(val), the re-render it schedules and the effect of that render
SetMock(val) ==
    /\ isMock' = val
    /\ useMock' = IF val # isMock THEN MockEffect(val) ELSE val
    /\ lastSetMock' = val
    /\ lastOp' = "setMock"
    /\ lastFetch' = NoFetch
    /\ lastResp' = NoResp
    /\ UNCHANGED <<token, tenantId, localStorage, MockData, user, pending,
                   sessionToken, pageVars>>

\* a logout that leaves the user state set
LogoutKeepsUser ==
    /\ token' = apiLogout(localStorage)[1]
    /\ localStorage' = apiLogout(localStorage)[2]
    /\ lastOp' = "logout"
    /\ lastFetch' = NoFetch
    /\ lastResp' = NoResp
    /\ UNCHANGED <<tenantId, useMock, MockData, isMock, pending, lastSetMock,
                   user, sessionToken, pageVars>>

\* AuthProvider.logout: api.logout() and setUser(null)
Logout ==
    /\ token' = apiLogout(localStorage)[1]
    /\ localStorage' = apiLogout(localStorage)[2]
    /\ user' = nullUser
    /\ sessionToken' = null
    /\ lastOp' = "logout"
    /\ lastFetch' = NoFetch
    /\ lastResp' = NoResp
    /\ UNCHANGED <<tenantId, useMock, MockData, isMock, pending, lastSetMock,
                   pageVars>>

\* a call of request(): the request joins those in flight
IssueReq(req, name, max) ==
    /\ Len(pending) < max
    /\ pending' = Append(pending, req)
    /\ lastOp' = name
    /\ lastFetch' = Fetch(req)
    /\ lastResp' = NoResp
    /\ UNCHANGED <<token, tenantId, useMock, localStorage, MockData, user,
                   isMock, sessionToken, lastSetMock>>

\* a call made by a caller other than MembersPage
Issue(req, name, max) == IssueReq(req, name, max) /\ UNCHANGED pageVars

\* AuthProvider.login up to `await api.login(creds)`
Login(creds, max) == Issue(apiLogin(creds), "login", max)

\* the pages' calls
GetMembers(params, max) == Issue(getMembers(params), "getMembers", max)

GetRoles(max) == Issue(getRoles, "getRoles", max)

GetOrgs(max) == Issue(getOrgs, "getOrgs", max)

\* members the requests so far have appended or may append to the fixtures
Appends ==
    Len(MockData.members) - Len(MockMembers)
        + Cardinality({i \in DOMAIN pending :
                         /\ pending[i].mock
                         /\ pending[i].method = "POST"
                         /\ startsWith(pending[i].endpoint, EP_members)})

\* members the page load has created or is creating in the fixtures
Creates ==
    Len(MockData.members) - Len(MockMembers)
        + Cardinality({i \in DOMAIN pending :
                         pending[i].mock /\ pending[i].op = "createMember"})

CreateMember(data, maxCreates, max) ==
    /\ useMock => Creates < maxCreates
    /\ Issue(createMember(data), "createMember", max)

\* MembersPage.fetchMembers up to `await api.getMembers(...)`: run by the
\* effect on mount and on a filter change, by the search form and by Enter
\* in the search box
FetchMembers(params, max) ==
    /\ IssueReq([getMembers(params) EXCEPT !.op = "fetchMembers"],
                "fetchMembers", max)
    /\ page' = [page EXCEPT !.loading = TRUE]
    /\ latest' = [state |-> "pending", data |-> NoLatest.data]

\* the fetchMembers() at the end of handleCreate, with the filter 'all' and
\* the empty search text of the render handleCreate belongs to
Refresh == [getMembers([status |-> "undefined", keyword |-> "undefined"])
               EXCEPT !.op = "fetchMembers"]

\* MembersPage.handleCreate up to `await api.createMember(newMember)`
HandleCreate(data, maxCreates, max) ==
    /\ useMock => Appends < maxCreates
    /\ IssueReq([createMember(data) EXCEPT !.op = "handleCreate"],
                "handleCreate", max)
    /\ UNCHANGED pageVars

\* endpoints handed to request() directly: the four the named operations
\* use, a path that only begins like one of them, and one unlike all
RawEndpoints == {EP_login, EP_members, EP_members \o <<"h", "i", "p">>,
                 EP_roles, EP_orgs, <<"/", "u", "s", "e", "r", "s">>}

\* options.method || 'GET'
RawMethods == {"GET", "POST", "DELETE"}

\* options.body: absent, or the JSON text of the page's form object
RawBodies(method) ==
    IF method = "POST"
    THEN {NoBody,
          JSONstringify([username |-> "jdoe", fullName |-> "", email |-> "j@x.com",
                         isVirtual |-> FALSE, agentType |-> "llm",
                         status |-> "active"])}
    ELSE {NoBody}

\* request(endpoint, {method, body}) called as such
RawRequest(endpoint, method, body, maxCreates, max) ==
    /\ (method = "POST" /\ startsWith(endpoint, EP_members)) => Appends < maxCreates
    /\ Issue(request("request", endpoint, method, body, NoCreds), "request", max)

-----------------------------------------------------------------------------
(* Completion of a request in flight *)

RemoveAt(q, i) == SubSeq(q, 1, i - 1) \o SubSeq(q, i + 1, Len(q))

\* AuthProvider.login after `await api.login(creds)` resolved with res:
\* the session afterwards, <<token, tenantId, localStorage, user>>.
\* Reading res.access_token of null throws before anything is stored;
\* creds.tenantId is the form's string.
LoginResolved(creds, res) ==
    IF res.isNull
    THEN <<token, tenantId, localStorage, user>>
    ELSE LET a == setToken(localStorage, res.value.access_token)
             b == setTenantId(a[2], OrElse(Str(creds.tenantId), Num(1)))
         IN  <<a[1], b[1], b[2],
               [present |-> TRUE, username |-> res.value.username,
                fullName |-> res.value.full_name]>>

\* the caller's continuation once request i has ended with res:
\* AuthProvider.login after its await, fetchMembers after its await with
\* its finally block, handleCreate after its await
Deliver(i, res, via, data) ==
    LET req == pending[i]
        s == IF req.op = "login" /\ ~res.raised
             THEN LoginResolved(req.creds, res)
             ELSE <<token, tenantId, localStorage, user>>
        refresh == req.op = "handleCreate" /\ ~res.raised
        listed == req.op = "fetchMembers" /\ ~res.raised /\ ~res.isNull
        newest == /\ req.op = "fetchMembers"
                  /\ latest.state = "pending"
                  /\ \A j \in (i + 1)..Len(pending) : pending[j].op # "fetchMembers"
    IN  /\ pending' = RemoveAt(pending, i) \o (IF refresh THEN <<Refresh>> ELSE <<>>)
        /\ MockData' = data
        /\ lastFetch' = IF refresh THEN Fetch(Refresh) ELSE NoFetch
        /\ page' = IF req.op = "fetchMembers"
                   THEN [members |-> IF listed THEN res.value.data ELSE page.members,
                         loading |-> FALSE]
                   ELSE IF refresh THEN [page EXCEPT !.loading = TRUE]
                   ELSE page
        /\ latest' = IF refresh THEN [state |-> "pending", data |-> NoLatest.data]
                     ELSE IF newest /\ listed
                     THEN [state |-> "resolved", data |-> res.value.data]
                     ELSE IF newest THEN [state |-> "failed", data |-> NoLatest.data]
                     ELSE latest
        /\ lastResp' = [op |-> req.op,
                        overtook |-> /\ req.op = "getMembers"
                                     /\ \E k \in 1..(i - 1) :
                                           pending[k].op = "createMember",
                        endpoint |-> req.endpoint,
                        body |-> req.body, mock |-> req.mock,
                        via |-> via,
                        fetches |-> req.fetches, outcome |->
                            IF res.raised THEN "raised" ELSE "resolved",
                        status |-> res.status, isNull |-> res.isNull,
                        value |-> res.value]
        /\ token' = s[1]
        /\ tenantId' = s[2]
        /\ localStorage' = s[3]
        /\ user' = s[4]
        /\ sessionToken' = IF req.op = "login" /\ ~res.raised /\ ~res.isNull
                           THEN res.value.access_token ELSE sessionToken
        /\ UNCHANGED <<useMock, isMock, lastSetMock>>

\* The 600 ms timer of the oldest request waiting in the mock branch fires
\* (equal delays fire in the order they were armed): mockHandler runs and
\* the caller's continuation with it.
TimerFires(ids, times) ==
    \E i \in DOMAIN pending :
        /\ Backend(pending[i]) = "fixture"
        /\ \A j \in 1..(i - 1) : Backend(pending[j]) # "fixture"
        /\ \E rnd \in ids, t \in times :
            LET req == pending[i]
                h == mockHandler(req.endpoint, req.method, req.body,
                                 MockData, rnd, Clock[t[1]], Clock[t[2]])
            IN  Deliver(i, [raised |-> h.raised, status |-> 0,
                            isNull |-> FALSE, value |-> h.result],
                        "fixture", h.data)
        /\ lastOp' = "timer"

\* what the live backend can answer to a request: for a 200 to login an
\* object with the fields AuthProvider.login reads, for the pages an object
\* with the data they read; and the other outcomes request() distinguishes
ServerBodies(op) ==
    IF op = "login"
    THEN {[access_token |-> t, username |-> "alice", full_name |-> "Alice Live"] :
            t \in LiveTokens}
    ELSE IF op \in {"createMember", "handleCreate"}
    THEN {[id |-> 4711, username |-> "jdoe"]}
    ELSE IF op = "fetchMembers"
    THEN {[data |-> [ref |-> "none", items |-> its],
           meta |-> [page |-> 1, page_size |-> 20, total |-> Len(its),
                     total_pages |-> 1]] :
            its \in {<<[id |-> 1]>>, <<[id |-> 1], [id |-> 4711]>>}}
    ELSE {[data |-> [ref |-> "none", items |-> <<[id |-> 1]>>],
           meta |-> [page |-> 1, page_size |-> 20, total |-> 1, total_pages |-> 1]]}

\* the status of the backend's success answer: 201 Created to a create,
\* 200 OK otherwise
SuccessStatus(op) == IF op \in {"createMember", "handleCreate"} THEN 201 ELSE 200

\* kind "status" is a response whose body is the JSON text of `body`; kind
\* "badjson" one whose body res.json() cannot parse, as the empty body of a
\* 204 No Content is
FetchOutcomes(op) ==
    {[kind |-> "rejected", status |-> 0, body |-> EmptyObject]}
    \cup {[kind |-> "status", status |-> 401, body |-> EmptyObject]}
    \cup {[kind |-> "status", status |-> SuccessStatus(op), body |-> b] :
            b \in ServerBodies(op)}
    \cup {[kind |-> "badjson", status |-> st, body |-> EmptyObject] :
            st \in {200, 204}}

\* a request() that answers null to every response that is not a 200
SettleNullOnFailure(o) ==
    IF o.kind = "status" /\ o.status = 200
    THEN [raised |-> FALSE, status |-> o.status, isNull |-> FALSE, value |-> o.body]
    ELSE [raised |-> FALSE, status |-> o.status, isNull |-> TRUE,
          value |-> EmptyObject]

\* a request() that calls res.json() before it looks at the status 204
SettleParsesNoContent(o) ==
    IF o.kind = "rejected"
    THEN [raised |-> TRUE, status |-> 0, isNull |-> FALSE,
          value |-> [error |-> "TypeError: Failed to fetch"]]
    ELSE IF o.status \notin 200..299
    THEN [raised |-> TRUE, status |-> o.status, isNull |-> FALSE,
          value |-> [error |-> "API Error"]]
    ELSE IF o.kind = "badjson"
    THEN [raised |-> TRUE, status |-> o.status, isNull |-> FALSE,
          value |-> [error |-> "SyntaxError"]]
    ELSE IF o.status = 204
    THEN [raised |-> FALSE, status |-> 204, isNull |-> TRUE, value |-> EmptyObject]
    ELSE [raised |-> FALSE, status |-> o.status, isNull |-> FALSE, value |-> o.body]

\* lines 118-126 on the outcome of fetch: what request() ends with
Settle(o) ==
    IF o.kind = "rejected"
    THEN [raised |-> TRUE, status |-> 0, isNull |-> FALSE,
          value |-> [error |-> "TypeError: Failed to fetch"]]
    ELSE IF o.status \notin 200..299
    THEN [raised |-> TRUE, status |-> o.status, isNull |-> FALSE,
          value |-> [error |-> "API Error"]]
    ELSE IF o.status = 204
    THEN [raised |-> FALSE, status |-> 204, isNull |-> TRUE, value |-> EmptyObject]
    ELSE IF o.kind = "badjson"
    THEN [raised |-> TRUE, status |-> o.status, isNull |-> FALSE,
          value |-> [error |-> "SyntaxError"]]
    ELSE [raised |-> FALSE, status |-> o.status, isNull |-> FALSE, value |-> o.body]

\* a network that answers requests in the order they were sent
ResponseArrivesInOrder ==
    \E i \in DOMAIN pending :
        /\ Backend(pending[i]) = "network"
        /\ \A j \in 1..(i - 1) : Backend(pending[j]) # "network"
        /\ \E o \in FetchOutcomes(pending[i].op) :
             Deliver(i, Settle(o), "network", MockData)
        /\ lastOp' = "response"

\* the fetch of a request waiting in the live branch settles, in any order
ResponseArrives ==
    \E i \in DOMAIN pending :
        /\ Backend(pending[i]) = "network"
        /\ \E o \in FetchOutcomes(pending[i].op) :
             Deliver(i, Settle(o), "network", MockData)
        /\ lastOp' = "response"

\* the page is loaded again: a new ApiService is built from durable storage,
\* React state and the fixtures start afresh, requests in flight are dropped
Reload ==
    /\ token' = ConstructToken(localStorage)
    /\ tenantId' = ConstructTenantId(localStorage)
    /\ useMock' = TRUE
    /\ MockData' = InitMockData
    /\ user' = nullUser
    /\ isMock' = TRUE
    /\ pending' = <<>>
    /\ lastOp' = "reload"
    /\ lastFetch' = NoFetch
    /\ lastResp' = NoResp
    /\ sessionToken' = null
    /\ lastSetMock' = TRUE
    /\ page' = InitPage
    /\ latest' = NoLatest
    /\ UNCHANGED localStorage

-----------------------------------------------------------------------------

(* The session: every login form input, logout, mode switches and page   *)
(* reloads, with one kind of read and one kind of write on the fixtures. *)

FormBody == [username |-> "jdoe", fullName |-> "", email |-> "j@x.com",
             isVirtual |-> FALSE, agentType |-> "llm", status |-> "active"]

Next ==
    \/ \E v \in BOOLEAN : SetMock(v)
    \/ Logout
    \/ \E c \in Credentials : Login(c, MaxPending)
    \/ CreateMember(FormBody, MaxCreates, MaxPending)
    \/ TimerFires({101}, {<<1, 1>>})
    \/ ResponseArrives
    \/ Reload

Spec == Init /\ [][Next]_vars

(* The data operations: every named operation of the facade with every   *)
(* input, mode switches, one login form input, and creates whose two     *)
(* clock readings are a millisecond apart.                               *)

NextData ==
    \/ \E v \in BOOLEAN : SetMock(v)
    \/ Login([username |-> "admin", password |-> "secret", tenantId |-> <<"0">>],
             MaxPendingData)
    \/ \E p \in MemberParams : GetMembers(p, MaxPendingData)
    \/ \E d \in MemberBodies : CreateMember(d, MaxCreates, MaxPendingData)
    \/ GetRoles(MaxPendingData)
    \/ GetOrgs(MaxPendingData)
    \/ TimerFires(RandomIds, {<<1, 2>>})
    \/ ResponseArrives

SpecData == Init /\ [][NextData]_vars

(* The fixtures grown past one page of 20. *)

NextBig ==
    \/ \E v \in BOOLEAN : SetMock(v)
    \/ GetMembers([status |-> "active", keyword |-> "jd"], MaxPending)
    \/ CreateMember(FormBody, MaxCreatesBig, MaxPending)
    \/ GetRoles(MaxPending)
    \/ GetOrgs(MaxPending)
    \/ TimerFires({101}, {<<1, 1>>})
    \/ ResponseArrives

SpecBig == Init /\ [][NextBig]_vars

(* The fixture handler as a function of endpoint, method and body: the   *)
(* facade's request() in mock mode, called with every such input.        *)

NextHandler ==
    \/ \E e \in RawEndpoints, m \in RawMethods :
         \E b \in RawBodies(m) : RawRequest(e, m, b, MaxCreates, MaxPendingData)
    \/ TimerFires(RandomIds, Times)

SpecHandler == Init /\ [][NextHandler]_vars

(* MembersPage: its fetches and creates in both modes. *)

NextPage ==
    \/ \E v \in BOOLEAN : SetMock(v)
    \/ FetchMembers([status |-> "active", keyword |-> "jd"], MaxPendingPage)
    \/ HandleCreate(FormBody, MaxCreates, MaxPendingPage)
    \/ TimerFires({101}, {<<1, 1>>})
    \/ ResponseArrives

SpecPage == Init /\ [][NextPage]_vars

-----------------------------------------------------------------------------
(* Properties *)

TokenEntryAbsent(ls) == "auth_token" \notin DOMAIN ls

SameEntry(ls1, ls2, k) ==
    /\ (k \in DOMAIN ls1) = (k \in DOMAIN ls2)
    /\ k \in DOMAIN ls1 => ls1[k] = ls2[k]

\* C1: in every reachable state isAuthenticated() is true exactly when a
\* token is present or mock mode is on: true whenever mock mode is on, with
\* or without a token, and false in live mode without a token.
C1_IsAuthenticated ==
    /\ isAuthenticated = (token # null \/ useMock)
    /\ useMock => isAuthenticated
    /\ (~useMock /\ token = null) => ~isAuthenticated

\* live mode, a token from an earlier login: authenticated by the token alone
C1_Witness == ~useMock /\ token # null /\ isAuthenticated /\ lastOp = "setMock"

\* C2: logout() makes the in-memory token absent and removes the persisted
\* auth token entry; the tenant id in memory and in storage, the mode flag
\* and the fixture collections stay as they were.
C2_LogoutFrame ==
    [][lastOp' = "logout" =>
         /\ token' = null
         /\ TokenEntryAbsent(localStorage')
         /\ tenantId' = tenantId
         /\ SameEntry(localStorage, localStorage', "tenant_id")
         /\ useMock' = useMock
         /\ isMock' = isMock
         /\ MockData' = MockData]_vars

\* a logout in a session that has a persisted tenant id and grown fixtures
C2_Witness ==
    /\ lastOp = "logout"
    /\ hasItem("tenant_id")
    /\ tenantId # Num(1)
    /\ Len(MockData.members) > Len(MockMembers)

\* C3: the token in memory equals the persisted auth token entry (both
\* absent or the same value), and the tenant id in memory equals the
\* persisted tenant id entry, or is 1 when none is persisted, in every state
\* reached by logins, logouts and page reloads.
C3_MemoryMatchesStorage ==
    /\ token = (IF hasItem("auth_token") THEN localStorage["auth_token"] ELSE null)
    /\ hasItem("tenant_id") => toString(tenantId) = localStorage["tenant_id"]
    /\ ~hasItem("tenant_id") => tenantId = Num(1)

\* C4: every list operation completed in mock mode answers an envelope
\* whose meta.total is the length of its data array, with total_pages 1,
\* page 1 and page_size 20, also when there are more than 20 members.
C4_ListEnvelope ==
    (lastOp = "timer" /\ lastResp.op \in {"getMembers", "getRoles", "getOrgs"}) =>
        /\ lastResp.outcome = "resolved"
        /\ lastResp.value.meta.total = Len(DataOf(lastResp.value.data))
        /\ lastResp.value.meta.total_pages = 1
        /\ lastResp.value.meta.page = 1
        /\ lastResp.value.meta.page_size = 20

\* a member list of more than 20 after earlier creates
C4_Witness ==
    /\ lastOp = "timer"
    /\ lastResp.op = "getMembers"
    /\ lastResp.value.meta.total > 20
    /\ Len(DataOf(lastResp.value.data)) > 20

ServerAssigned == {"id", "createdAt", "updatedAt"}

ClockValues == {Clock[i] : i \in DOMAIN Clock}

\* C5: a createMember completed in mock mode whose body carries none of id,
\* createdAt, updatedAt makes the members collection one longer, leaves the
\* records before it as they were, and appends the record it returns: every
\* submitted field with its value, an integer id and the two timestamps.
C5_CreateAppends ==
    [][(/\ lastOp' = "timer"
        /\ lastResp'.op = "createMember"
        /\ (DOMAIN JSONparse(lastResp'.body)) \cap ServerAssigned = {}) =>
         LET body == JSONparse(lastResp'.body)
             ret == lastResp'.value
             old == MockData.members
             new == MockData'.members
         IN  /\ lastResp'.outcome = "resolved"
             /\ Len(new) = Len(old) + 1
             /\ SubSeq(new, 1, Len(old)) = old
             /\ new[Len(new)] = ret
             /\ DOMAIN ret = (DOMAIN body) \cup ServerAssigned
             /\ \A f \in DOMAIN body : ret[f] = body[f]
             /\ ret.id \in 0..999
             /\ ret.createdAt \in ClockValues
             /\ ret.updatedAt \in ClockValues
             /\ MockData'.roles = MockData.roles
             /\ MockData'.orgs = MockData.orgs]_vars

\* a create that was given the id of a seeded member
C5_Witness ==
    /\ lastOp = "timer"
    /\ lastResp.op = "createMember"
    /\ (DOMAIN JSONparse(lastResp.body)) \cap ServerAssigned = {}
    /\ Len(MockData.members) = Len(MockMembers) + 1
    /\ MockData.members[Len(MockData.members)].id = MockData.members[1].id

\* C6: setMock(v), for either v and in any order, leaves the token and the
\* tenant id in memory, both storage entries and the current user unchanged.
C6_SetMockFrame ==
    [][lastOp' = "setMock" =>
         /\ token' = token
         /\ tenantId' = tenantId
         /\ localStorage' = localStorage
         /\ user' = user]_vars

\* mock mode switched off in a session with a user and persisted entries
C6_Witness ==
    /\ lastOp = "setMock"
    /\ ~isMock
    /\ user.present
    /\ hasItem("auth_token")
    /\ hasItem("tenant_id")

LoginCompleted(resp) ==
    resp.op = "login" /\ resp.outcome = "resolved" /\ ~resp.isNull

\* C7: the user is absent at the start of a page load, becomes present (or
\* another user) only in a step that completes a login successfully, and
\* becomes absent only by logout; while a user is present the store holds
\* the token that login returned; a logout leaves user and token absent, and
\* the token stays absent until a login completes; setMock changes neither.
C7_SessionMachine ==
    /\ ~user.present
    /\ [][/\ lastOp' = "reload" => ~user'.present
          /\ (user' # user /\ user'.present) =>
                (lastOp' \in {"timer", "response"} /\ LoginCompleted(lastResp'))
          /\ (user.present /\ ~user'.present) => lastOp' \in {"logout", "reload"}
          /\ user'.present =>
                (/\ token' # null
                 /\ token' = sessionToken'
                 /\ hasItem("auth_token")'
                 /\ localStorage'["auth_token"] = sessionToken')
          /\ LoginCompleted(lastResp') => sessionToken' = lastResp'.value.access_token
          /\ lastOp' = "logout" => (~user'.present /\ token' = null)
          /\ (token = null /\ token' # null) =>
                (lastOp' \in {"timer", "response"} /\ LoginCompleted(lastResp'))
          /\ lastOp' = "setMock" => (user' = user /\ token' = token)]_vars

\* logged in by the live backend
C7_Witness ==
    /\ lastOp = "response"
    /\ LoginCompleted(lastResp)
    /\ user.present
    /\ token = "jwt-A"

\* C8: api.useMock and the context's isMock are equal after initialisation
\* and after every setMock(v), and equal the v of the last setMock call of
\* the page load, or true when there was none.
C8_MockFlagsAgree ==
    /\ useMock = isMock
    /\ isMock = lastSetMock

\* after setMock(false)
C8_Witness == lastOp = "setMock" /\ ~lastSetMock /\ ~useMock /\ ~isMock

\* C9: a request is served by the backend the mode flag selected when it was
\* issued: issued in mock mode it is answered by the fixture handler without
\* any network call, issued in live mode it is answered by the network and
\* its completion leaves the fixtures alone, whatever setMock did meanwhile.
C9_BackendFixedAtIssue ==
    [][lastOp' \in {"timer", "response"} =>
         /\ lastResp'.mock =>
               (/\ lastOp' = "timer"
                /\ lastResp'.via = "fixture"
                /\ lastResp'.fetches = 0)
         /\ ~lastResp'.mock =>
               (/\ lastOp' = "response"
                /\ lastResp'.via = "network"
                /\ lastResp'.fetches = 1
                /\ MockData' = MockData)]_vars

\* a request issued in mock mode, answered by the fixtures in live mode
C9_Witness ==
    /\ lastOp = "timer"
    /\ lastResp.mock
    /\ lastResp.via = "fixture"
    /\ ~useMock

\* C10: a live request whose fetch fails, or whose response has a
\* non-success status, raises to the caller after one network attempt and is
\* not issued again; the step changes neither token nor tenant id (in
\* memory and persisted), nor the mode flag, nor the fixtures.
C10_LiveFailureRaises ==
    [][(/\ lastOp' = "response"
        /\ lastResp'.status \notin 200..299) =>
         /\ lastResp'.outcome = "raised"
         /\ lastResp'.fetches = 1
         /\ Len(pending') = Len(pending) - 1
         /\ token' = token
         /\ tenantId' = tenantId
         /\ localStorage' = localStorage
         /\ useMock' = useMock
         /\ isMock' = isMock
         /\ MockData' = MockData]_vars

\* a 401 in a session that holds a token and grown fixtures
C10_Witness ==
    /\ lastOp = "response"
    /\ lastResp.status = 401
    /\ lastResp.outcome = "raised"
    /\ token # null

\* C11: a live request whose response has status 204 resolves with no value
\* (it does not raise, and the value is neither an empty object nor a
\* data/meta payload), without the body being parsed: the empty body of a
\* 204 does not make it raise.  A response with another success status and a
\* JSON body resolves with that body parsed.
C11_NoContentResolvesNull ==
    /\ (lastOp = "response" /\ lastResp.status = 204) =>
          /\ lastResp.outcome = "resolved"
          /\ lastResp.isNull
          /\ lastResp.value = EmptyObject
    /\ (/\ lastOp = "response"
        /\ lastResp.status \in (200..299) \ {204}
        /\ lastResp.outcome = "resolved") =>
          /\ ~lastResp.isNull
          /\ lastResp.value \in ServerBodies(lastResp.op)
    /\ \A o \in FetchOutcomes(lastResp.op) :
          (o.kind = "status" /\ o.status \in (200..299) \ {204}) =>
             Settle(o) = [raised |-> FALSE, status |-> o.status,
                          isNull |-> FALSE, value |-> o.body]

\* a 204 answered to a list fetch
C11_Witness ==
    /\ lastOp = "response"
    /\ lastResp.op = "getMembers"
    /\ lastResp.status = 204
    /\ lastResp.outcome = "resolved"
    /\ lastResp.isNull

IssuingOps == {"login", "getMembers", "createMember", "getRoles", "getOrgs"}

\* C12: every operation issued in live mode makes one fetch() call, whose
\* Authorization header is "Bearer " followed by the store's token and
\* whose X-Tenant-ID header is the store's tenant id in text, both as they
\* are when the operation is issued; with the token absent after a logout
\* the header carries no token of an earlier session.  In mock mode no
\* fetch() is made.
C12_HeadersFromStore ==
    [][lastOp' \in IssuingOps =>
         /\ lastFetch'.called = ~useMock
         /\ lastFetch'.called =>
               /\ lastFetch'.headers.ContentType = "application/json"
               /\ lastFetch'.headers.Authorization = "Bearer " \o token
               /\ lastFetch'.headers.XTenantID = toString(tenantId)
               /\ token = null =>
                     \A t \in LiveTokens \cup {"mock-jwt-token"} :
                         lastFetch'.headers.Authorization # "Bearer " \o t]_vars

\* a create issued in live mode after a login that set the token and the
\* tenant "1e2"
C12_Witness ==
    /\ lastOp = "createMember"
    /\ lastFetch.called
    /\ lastFetch.headers.Authorization = "Bearer jwt-A"
    /\ lastFetch.headers.XTenantID = <<"1", "e", "2">>

\* the request whose timer fires next
OldestFixture ==
    pending[CHOOSE i \in DOMAIN pending :
                /\ Backend(pending[i]) = "fixture"
                /\ \A j \in 1..(i - 1) : Backend(pending[j]) # "fixture"]

\* the endpoint/method pairs the fixture handler is documented to serve
Recognized(endpoint, method) ==
    \/ endpoint = EP_login /\ method = "POST"
    \/ endpoint \in {EP_members, EP_roles, EP_orgs} /\ method \in {"GET", "POST"}

\* C13: in mock mode a request resolves with a value for every endpoint
\* and method, and for every pair other than POST /auth/login and GET or
\* POST on /members, /roles, /orgs the value is an empty object and the
\* three fixture collections are left as they were.
C13_HandlerTotal ==
    [][lastOp' = "timer" =>
         LET req == OldestFixture
         IN  /\ lastResp'.outcome = "resolved"
             /\ ~Recognized(req.endpoint, req.method) =>
                   (lastResp'.value = EmptyObject /\ MockData' = MockData)]_vars

\* C14: a getMembers completed in mock mode resolves, whatever status and
\* keyword it was given, with the whole members collection in its order (the
\* 5 seeded members first, the created ones after them) and the page
\* metadata of that collection, and leaves the collection as it was; the
\* handler's answer is the same for any two parameter values.
C14_GetMembersUnfiltered ==
    [][(lastOp' = "timer" /\ lastResp'.op = "getMembers") =>
         LET ret == lastResp'.value
         IN  /\ lastResp'.outcome = "resolved"
             /\ ret.data.ref = "members"
             /\ MockData'[ret.data.ref] = MockData.members
             /\ SubSeq(MockData.members, 1, Len(MockMembers)) = MockMembers
             /\ ret.meta = [page |-> 1, page_size |-> 20,
                            total |-> Len(MockData.members), total_pages |-> 1]
             /\ MockData' = MockData
             /\ \A p, q \in MemberParams :
                   mockHandler(getMembers(p).endpoint, "GET", NoBody, MockData,
                               101, Clock[1], Clock[1])
                     = mockHandler(getMembers(q).endpoint, "GET", NoBody, MockData,
                                   101, Clock[1], Clock[1])]_vars

\* a fetch with status=active answered after a member with status inactive
\* was created
C14_Witness ==
    /\ lastOp = "timer"
    /\ lastResp.op = "getMembers"
    /\ lastResp.endpoint = EP_members \o <<"?", "status=active", "&", "keyword=jd">>
    /\ Len(MockData.members) = Len(MockMembers) + 1
    /\ MockData.members[Len(MockData.members)].status = "inactive"
    /\ MockData[lastResp.value.data.ref] = MockData.members

\* request j is a getMembers issued while the createMember i was in flight
FetchAfterCreate(i, j) ==
    /\ i < j
    /\ pending[i].op = "createMember"
    /\ pending[j].op = "getMembers"

\* a step that completes a getMembers while a createMember issued before it
\* is still in flight, with a list that does not hold the member it creates
StaleFetch ==
    /\ TimerFires({101}, {<<1, 1>>}) \/ ResponseArrives
    /\ lastResp'.op = "getMembers"
    /\ lastResp'.overtook
    /\ lastResp'.outcome = "resolved"
    /\ ~lastResp'.isNull
    /\ lastResp'.mock => MockData' = MockData
    /\ ~lastResp'.mock =>
          \A k \in DOMAIN lastResp'.value.data.items :
              \A b \in ServerBodies("createMember") :
                  lastResp'.value.data.items[k].id # b.id

ExpectedTenant(t) == IF t = <<>> \/ parseInt(t) = Num(0) THEN <<"1">> ELSE t

\* C16: a login that raises leaves the token, the tenant id (in memory and
\* persisted) and the user as they were; a login that succeeds makes the
\* token the returned access_token, the tenant id the submitted one, or 1
\* when none or 0 was submitted, and the user the returned username and
\* full name.
C16_LoginOnlyOnSuccess ==
    [][(lastOp' \in {"timer", "response"} /\ lastResp'.op = "login") =>
         /\ lastResp'.outcome = "raised" =>
               /\ token' = token
               /\ tenantId' = tenantId
               /\ localStorage' = localStorage
               /\ user' = user
         /\ LoginCompleted(lastResp') =>
               LET t == JSONparse(lastResp'.body).tenantId
               IN  /\ token' = lastResp'.value.access_token
                   /\ localStorage'["auth_token"] = lastResp'.value.access_token
                   /\ toString(tenantId') = ExpectedTenant(t)
                   /\ localStorage'["tenant_id"] = ExpectedTenant(t)
                   /\ user' = [present |-> TRUE,
                               username |-> lastResp'.value.username,
                               fullName |-> lastResp'.value.full_name]]_vars

FetchOutstanding == \E i \in DOMAIN pending : pending[i].op = "fetchMembers"

\* C17: on the members page loading is true whenever a fetchMembers request
\* is outstanding, and once no request of the page is outstanding the
\* displayed list is the response of the fetchMembers issued last.
C17_LoadingAndLatest ==
    /\ FetchOutstanding => page.loading
    /\ (pending = <<>> /\ latest.state = "resolved") => page.members = latest.data

=============================================================================
